---- MODULE Spec2Model ----
(***************************************************************************)
(* A model of src/app.py: the grid quantizer (get_cells_from_polyline),    *)
(* the two aggregation endpoints (get_stats_history, get_activities_route) *)
(* with their in-memory caches, and the municipality attribution loop.     *)
(*                                                                         *)
(* Numbers.  Coordinates of input points are integers in units of          *)
(* 1/PointScale degree; cell keys are integers in units of 1/KeyScale      *)
(* degree (round(.., 6) of the source).  The source computes in IEEE       *)
(* doubles; the model computes the same expressions on exact rationals     *)
(* with round-half-to-even, which is what Python's round() does on the     *)
(* value it is given.  All products are kept below 2^31.                   *)
(***************************************************************************)
EXTENDS Integers, Sequences, FiniteSets, TLC

----------------------------------------------------------------------------
(* Exact arithmetic helpers                                                *)

RECURSIVE GCD(_, _)
GCD(a, b) == IF b = 0 THEN a ELSE GCD(b, a % b)

\* Floor q and remainder r (over denominator d) of a*b/c, for a >= 0 and
\* b, c > 0, computed without forming the product a*b: with a = qa*d + ra
\* and b/c = (qb*d + rb)/d in lowest terms.
SplitProduct(qa, ra, qb, rb, d) ==
    [q |-> qa * qb * d + qa * rb + ra * qb + ((ra * rb) \div d),
     r |-> (ra * rb) % d,
     d |-> d]

\* The same by halving a, for remainders whose product ra*rb would leave the
\* 32-bit range: floor and remainder of a*b/c for b < c.
HalveStep(h, add, c) ==
    [q |-> 2 * h.q + ((2 * h.r + add) \div c),
     r |-> (2 * h.r + add) % c,
     d |-> c]

RECURSIVE MulDivWide(_, _, _)
MulDivWide(a, b, c) ==
    IF a = 0 THEN [q |-> 0, r |-> 0, d |-> c]
    ELSE HalveStep(MulDivWide(a \div 2, b, c), (a % 2) * b, c)

AddWhole(whole, m) == [q |-> whole + m.q, r |-> m.r, d |-> m.d]

MulDivReduced(a, bb, cc) ==
    IF (bb % cc) = 0 \/ (a % cc) <= 2147483647 \div (bb % cc)
    THEN SplitProduct(a \div cc, a % cc, bb \div cc, bb % cc, cc)
    ELSE AddWhole(a * (bb \div cc), MulDivWide(a, bb % cc, cc))

MulDivMod(a, b, c) == MulDivReduced(a, b \div GCD(b, c), c \div GCD(b, c))

\* Python round(): the nearest integer, ties to the even neighbour.
RoundHalfEven(m) ==
    IF 2 * m.r < m.d THEN m.q
    ELSE IF 2 * m.r > m.d THEN m.q + 1
    ELSE IF m.q % 2 = 0 THEN m.q ELSE m.q + 1

round_div(a, b, c) == RoundHalfEven(MulDivMod(a, b, c))

\* Largest r in lo..hi with r*r <= n (n >= lo*lo), by bisection.
RECURSIVE ISqrtIn(_, _, _)
ISqrtIn(n, lo, hi) ==
    IF lo >= hi THEN lo
    ELSE LET mid == (lo + hi + 1) \div 2
         IN  IF mid * mid <= n THEN ISqrtIn(n, mid, hi)
             ELSE ISqrtIn(n, lo, mid - 1)

\* 46340 is floor(sqrt(2^31 - 1)).
ISqrt(n) == ISqrtIn(n, 0, 46340)

\* Dictionaries are functions: d[k] = v, and d.pop(k, None).
Put(f, k, v) == [x \in DOMAIN f \cup {k} |-> IF x = k THEN v ELSE f[x]]
Pop(f, k) == [x \in DOMAIN f \ {k} |-> f[x]]

\* The sequences over S of length at most n.
RECURSIVE SeqsUpTo(_, _)
SeqsUpTo(S, n) ==
    IF n = 0 THEN { <<>> }
    ELSE LET shorter == SeqsUpTo(S, n - 1)
         IN  shorter \cup { Append(s, x) : s \in shorter, x \in S }

RECURSIVE SumSeq(_)
SumSeq(s) == IF s = <<>> THEN 0 ELSE s[1] + SumSeq(Tail(s))

RECURSIVE SumOver(_, _)
\* Sum of f[x] for x in the finite set S.
SumOver(f, S) ==
    IF S = {} THEN 0
    ELSE LET x == CHOOSE y \in S : TRUE IN f[x] + SumOver(f, S \ {x})

----------------------------------------------------------------------------
(* Grid quantizer: get_cells_from_polyline                                 *)

MetersPerDegree == 111320     \* grid_size_deg = grid_meters / 111320
PointScale == 10^4            \* input points: units of 1e-4 degree
KeyScale == 10^6              \* round(.., 6): keys in units of 1e-6 degree

\* 111320 / PointScale in lowest terms: grid cells per point unit is
\* DegNum / (DegDen * grid_meters).
DegNum == MetersPerDegree \div GCD(MetersPerDegree, PointScale)
DegDen == PointScale \div GCD(MetersPerDegree, PointScale)

\* One coordinate of to_key: the coordinate is the rational num/den point
\* units.  round(lat / grid_size_deg), then round(n * grid_size_deg, 6).
\* A build that truncates instead of rounding: int(lat / grid_size_deg).
to_key1Truncating(num, den, grid_meters) ==
    round_div(MulDivMod(num, MetersPerDegree,
                        den * PointScale * grid_meters).q,
              grid_meters * KeyScale, MetersPerDegree)

to_key1(num, den, grid_meters) ==
    round_div(round_div(num, MetersPerDegree, den * PointScale * grid_meters),
              grid_meters * KeyScale, MetersPerDegree)

to_key(latnum, lonnum, den, grid_meters) ==
    <<to_key1(latnum, den, grid_meters), to_key1(lonnum, den, grid_meters)>>

\* dist = ((curr_lat - prev_lat)**2 + (curr_lon - prev_lon)**2)**0.5, kept
\* as its square, in point units.
Dist2(prev, curr) ==
    (curr[1] - prev[1]) * (curr[1] - prev[1])
        + (curr[2] - prev[2]) * (curr[2] - prev[2])

\* sqrt(s2) > t, with r the integer square root of s2.
RootExceeds(s2, r, t) == r > t \/ (r = t /\ s2 > r * r)

\* dist > grid_size_deg * 0.7, that is DegNum * dist > 0.7 * DegDen *
\* grid_meters (a whole number).
DistExceeds(d2, grid_meters) ==
    RootExceeds(d2 * DegNum * DegNum, ISqrt(d2 * DegNum * DegNum),
                (7 * DegDen * grid_meters) \div 10)

\* A build that divides by the whole spacing: int(dist / grid_size_deg).
NumStepsWholeSpacing(d2, grid_meters) ==
    ISqrt(d2 * DegNum * DegNum) \div (DegDen * grid_meters)

\* num_steps = int(dist / (grid_size_deg * 0.5))
NumSteps(d2, grid_meters) ==
    ISqrt(d2 * DegNum * DegNum) \div ((DegDen \div 2) * grid_meters)

\* for j in range(1, num_steps + 1): frac = j / (num_steps + 1); the key of
\* prev + (curr - prev) * frac.
Interpolated(prev, curr, num_steps, grid_meters) ==
    { to_key(prev[1] * (num_steps + 1) + (curr[1] - prev[1]) * j,
             prev[2] * (num_steps + 1) + (curr[2] - prev[2]) * j,
             num_steps + 1, grid_meters) : j \in 1..num_steps }

\* A build that adds the key of curr only when no point was interpolated.
SegmentCellsDropCurr(prev, curr, grid_meters) ==
    IF DistExceeds(Dist2(prev, curr), grid_meters)
    THEN Interpolated(prev, curr, NumSteps(Dist2(prev, curr), grid_meters),
                      grid_meters)
    ELSE { to_key(curr[1], curr[2], 1, grid_meters) }

\* The body of the loop over i: the interpolated keys, then the key of curr.
SegmentCells(prev, curr, grid_meters) ==
    (IF DistExceeds(Dist2(prev, curr), grid_meters)
     THEN Interpolated(prev, curr, NumSteps(Dist2(prev, curr), grid_meters),
                       grid_meters)
     ELSE {})
        \cup { to_key(curr[1], curr[2], 1, grid_meters) }

get_cells_from_polyline(pts, grid_meters) ==
    IF pts = <<>> THEN {}
    ELSE { to_key(pts[1][1], pts[1][2], 1, grid_meters) }
            \cup UNION { SegmentCells(pts[i - 1], pts[i], grid_meters) :
                            i \in 2..Len(pts) }

\* The number of intermediate points the densification inserts on a segment.
Inserted(prev, curr, grid_meters) ==
    IF DistExceeds(Dist2(prev, curr), grid_meters)
    THEN NumSteps(Dist2(prev, curr), grid_meters)
    ELSE 0

----------------------------------------------------------------------------
(* Tracks                                                                  *)

\* start_date_local is the text "YYYY-MM-01T00:00:00Z"; the model keeps the
\* six characters that vary, as the tuple of their digit values.  Python
\* compares such texts character by character.
StrLess(a, b) ==
    \/ \E i \in 1..Len(a) :
          /\ i <= Len(b)
          /\ \A j \in 1..(i - 1) : a[j] = b[j]
          /\ a[i] < b[i]
    \/ /\ Len(a) < Len(b)
       /\ \A j \in 1..Len(a) : a[j] = b[j]

\* datetime.strptime(text, "%Y-%m-%dT%H:%M:%SZ"): the month must be 01..12,
\* anything else raises ValueError.
Parseable(text) ==
    /\ Len(text) = 6
    /\ 10 * text[5] + text[6] \in 1..12

strptime(text) ==
    [year  |-> 1000 * text[1] + 100 * text[2] + 10 * text[3] + text[4],
     month |-> 10 * text[5] + text[6]]

\* str(dt.year) and dt.strftime("%Y-%m"); the latter is a zero-padded text of
\* fixed width, kept as the number year*100 + month, which orders the same.
y_str(dt) == ToString(dt.year)
strftime_ym(dt) == dt.year * 100 + dt.month

\* polyline.decode: the encoded text is kept as the name of its point list.
Polylines ==
    [A |-> << <<488566, 23522>>, <<488576, 23522>> >>,
     B |-> << <<488576, 23522>>, <<488576, 23529>> >>,
     C |-> << <<488590, 23540>> >>]

polyline_decode(name) == Polylines[name]

GPS_SPORTS ==
    {"Run", "Ride", "Hike", "Walk", "AlpineSki", "BackcountrySki",
     "VirtualRide", "VirtualRun", "GravelRide", "TrailRun", "E-BikeRide",
     "Velomobile", "NordicSki", "Snowshoe"}

----------------------------------------------------------------------------
(* get_strava_activities_cached: the page loop and the cleaning            *)

PageCap == 10                 \* if page > 10: break

\* The upstream's answer to the request for `page`: past the last page it
\* has, the upstream answers 200 with an empty list.
PageResponse(upstream, page) ==
    IF page <= Len(upstream) THEN upstream[page]
    ELSE [raises |-> FALSE, status |-> 200, data |-> <<>>]

\* The breaks of the loop: an exception, a status other than 200, an empty
\* page; and, after "page += 1", page > 10.
Stops(resp) == resp.raises \/ resp.status # 200 \/ resp.data = <<>>

\* A build without the page cap.
LastPageNever(page) == FALSE

LastPage(page) == page + 1 > PageCap

RECURSIVE FetchPages(_, _, _)
FetchPages(upstream, page, all_activities) ==
    IF Stops(PageResponse(upstream, page)) THEN all_activities
    ELSE IF LastPage(page)
    THEN all_activities \o PageResponse(upstream, page).data
    ELSE FetchPages(upstream, page + 1,
                    all_activities \o PageResponse(upstream, page).data)

Cleaned(all_activities) ==
    SelectSeq(all_activities,
              LAMBDA act : act.type \in GPS_SPORTS /\ act.polyline # "")

----------------------------------------------------------------------------
(* get_stats_history: sort, scan, monthly series                           *)

\* list.sort(key=start_date_local) is stable: an element goes after every
\* element whose key is not greater.
RECURSIVE InsertByStart(_, _)
InsertByStart(act, sorted) ==
    IF sorted = <<>> THEN <<act>>
    ELSE IF StrLess(act.start_date_local, sorted[1].start_date_local)
         THEN <<act>> \o sorted
         ELSE <<sorted[1]>> \o InsertByStart(act, Tail(sorted))

RECURSIVE SortRec(_, _)
SortRec(todo, sorted) ==
    IF todo = <<>> THEN sorted
    ELSE SortRec(Tail(todo), InsertByStart(todo[1], sorted))

\* A build that scans the tracks as delivered.
SortByStartOmitted(activities) == activities

SortByStart(activities) == SortRec(activities, <<>>)

PassesFilter(y, sport, sel_year, sel_sport) ==
    /\ sel_year = "all" \/ y = sel_year
    /\ sel_sport = "all" \/ sport = sel_sport

Blocks(act, grid_meters) ==
    get_cells_from_polyline(polyline_decode(act.polyline), grid_meters)

\* for b in blocks: the three effects of the loop body, taken over the set.
SeenAfterForgetful(blocks, global_seen) == global_seen
SeenAfter(blocks, global_seen) == global_seen \cup blocks

NewCount(blocks, global_seen) == Cardinality(blocks \ global_seen)

RoutineCountPerTrack(blocks, global_seen) ==
    IF blocks \cap global_seen = {} THEN 0 ELSE 1
RoutineCount(blocks, global_seen) == Cardinality(blocks \cap global_seen)

StatsStart ==
    [raised |-> FALSE, monthly_data |-> <<>>, global_seen |-> {},
     available_years |-> {}, available_sports |-> {}, total_blocks |-> 0]

\* if m_key not in monthly_data: monthly_data[m_key] = {'new': 0, ...}
Bucket(monthly_data, m_key) ==
    IF m_key \in DOMAIN monthly_data THEN monthly_data[m_key]
    ELSE [new |-> 0, routine |-> 0]

AddToBucket(bucket, new, routine) ==
    [new |-> bucket.new + new, routine |-> bucket.routine + routine]

\* available_years.add(y_str); available_sports.add(sport)
StatsFacets(acc, y, sport) ==
    [acc EXCEPT !.available_years = @ \cup {y},
                !.available_sports = @ \cup {sport}]

\* The scan of one track that passed the filter.
StatsScan(acc, m_key, blocks) ==
    [acc EXCEPT
       !.monthly_data =
           Put(@, m_key,
               AddToBucket(Bucket(@, m_key),
                           NewCount(blocks, acc.global_seen),
                           RoutineCount(blocks, acc.global_seen))),
       !.global_seen = SeenAfter(blocks, @),
       !.total_blocks = @ + NewCount(blocks, acc.global_seen)]

\* A build that notes the year and sport of a track after the filter.
StatsParsedFacetsLate(acc, act, dt, grid_meters, sel_year, sel_sport) ==
    IF ~PassesFilter(y_str(dt), act.type, sel_year, sel_sport) THEN acc
    ELSE StatsScan(StatsFacets(acc, y_str(dt), act.type),
                   strftime_ym(dt), Blocks(act, grid_meters))

StatsParsed(acc, act, dt, grid_meters, sel_year, sel_sport) ==
    IF ~PassesFilter(y_str(dt), act.type, sel_year, sel_sport)
    THEN StatsFacets(acc, y_str(dt), act.type)
    ELSE StatsScan(StatsFacets(acc, y_str(dt), act.type),
                   strftime_ym(dt), Blocks(act, grid_meters))

\* One iteration of "for act in activities".
StatsStep(acc, act, grid_meters, sel_year, sel_sport) ==
    IF acc.raised THEN acc
    ELSE IF ~Parseable(act.start_date_local)
    THEN [acc EXCEPT !.raised = TRUE]
    ELSE StatsParsed(acc, act, strptime(act.start_date_local),
                     grid_meters, sel_year, sel_sport)

RECURSIVE StatsLoop(_, _, _, _, _)
StatsLoop(acc, activities, grid_meters, sel_year, sel_sport) ==
    IF activities = <<>> THEN acc
    ELSE StatsLoop(StatsStep(acc, activities[1], grid_meters,
                             sel_year, sel_sport),
                   Tail(activities), grid_meters, sel_year, sel_sport)

\* sorted(...) of a set of numbers, as a list.
RECURSIVE SortedList(_)
SortedList(S) ==
    IF S = {} THEN <<>>
    ELSE LET least == CHOOSE x \in S : \A y \in S : x <= y
         IN  <<least>> \o SortedList(S \ {least})

\* running += monthly_data[m]['new']; conquest.append(running)
Running(explore) ==
    [i \in 1..Len(explore) |-> SumSeq(SubSeq(explore, 1, i))]

Column(monthly_data, labels, field) ==
    [i \in 1..Len(labels) |-> monthly_data[labels[i]][field]]

StatsResult(acc) ==
    [labels           |-> SortedList(DOMAIN acc.monthly_data),
     conquest         |-> Running(Column(acc.monthly_data,
                                         SortedList(DOMAIN acc.monthly_data),
                                         "new")),
     exploration      |-> Column(acc.monthly_data,
                                 SortedList(DOMAIN acc.monthly_data), "new"),
     routine          |-> Column(acc.monthly_data,
                                 SortedList(DOMAIN acc.monthly_data),
                                 "routine"),
     total_blocks     |-> acc.total_blocks,
     available_years  |-> acc.available_years,
     available_sports |-> acc.available_sports]

----------------------------------------------------------------------------
(* get_activities_route: the per-cell store                                *)

KeyLess(a, b) == a[1] < b[1] \/ (a[1] = b[1] /\ a[2] < b[2])

\* "for b in blocks" visits a set in an order the build fixes; the model
\* knows two builds, visiting by ascending and by descending key.
FirstOf(blocks, iter) ==
    IF iter = "asc"
    THEN CHOOSE x \in blocks : \A y \in blocks \ {x} : KeyLess(x, y)
    ELSE CHOOSE x \in blocks : \A y \in blocks \ {x} : KeyLess(y, x)

RECURSIVE IterList(_, _)
IterList(blocks, iter) ==
    IF blocks = {} THEN <<>>
    ELSE <<FirstOf(blocks, iter)>>
            \o IterList(blocks \ {FirstOf(blocks, iter)}, iter)

ActStart ==
    [raised |-> FALSE, coords |-> <<>>, grid_store |-> <<>>, keys |-> <<>>,
     available_years |-> {}, available_sports |-> {},
     total_distance |-> 0, activity_count |-> 0]

\* The update of grid_store[b] by one track of month act_ym.
\* A build that never moves the first period of a cell back.
StoreCellKeepsFirst(grid_store, b, act_ym) ==
    IF b \notin DOMAIN grid_store
    THEN [cnt |-> 1, first |-> act_ym, last |-> act_ym]
    ELSE [cnt   |-> grid_store[b].cnt + 1,
          first |-> grid_store[b].first,
          last  |-> IF act_ym > grid_store[b].last
                    THEN act_ym ELSE grid_store[b].last]

StoreCell(grid_store, b, act_ym) ==
    IF b \notin DOMAIN grid_store
    THEN [cnt |-> 1, first |-> act_ym, last |-> act_ym]
    ELSE [cnt   |-> grid_store[b].cnt + 1,
          first |-> IF act_ym < grid_store[b].first
                    THEN act_ym ELSE grid_store[b].first,
          last  |-> IF act_ym > grid_store[b].last
                    THEN act_ym ELSE grid_store[b].last]

\* A build that stores the cells of every track, whatever the filter.
StoresTrackUnfiltered(y, sport, sel_year, sel_sport) == TRUE

\* if (sel_year == 'all' or sel_year == y_str) and (sel_sport == 'all' ...
StoresTrack(y, sport, sel_year, sel_sport) ==
    /\ sel_year = "all" \/ sel_year = y
    /\ sel_sport = "all" \/ sel_sport = sport

\* The body of the filter's "if": coords, grid_store, the two counters.
\* keys is the insertion order of the dict grid_store.
ActStore(acc, act, pts, blocks, act_ym, iter) ==
    [acc EXCEPT
       !.coords = Append(@, pts),
       !.grid_store =
           [b \in DOMAIN @ \cup blocks |->
              IF b \in blocks THEN StoreCell(@, b, act_ym) ELSE @[b]],
       !.keys = @ \o IterList(blocks \ DOMAIN acc.grid_store, iter),
       !.total_distance = @ + act.distance,
       !.activity_count = @ + 1]

\* data["available_years"].add(y_str); data["available_sports"][sport] = ..
ActFacets(acc, y, sport) ==
    [acc EXCEPT !.available_years = @ \cup {y},
                !.available_sports = @ \cup {sport}]

ActParsed(acc, act, dt, grid_meters, sel_year, sel_sport, iter) ==
    IF ~StoresTrack(y_str(dt), act.type, sel_year, sel_sport)
    THEN ActFacets(acc, y_str(dt), act.type)
    ELSE ActStore(ActFacets(acc, y_str(dt), act.type), act,
                  polyline_decode(act.polyline),
                  get_cells_from_polyline(polyline_decode(act.polyline),
                                          grid_meters),
                  strftime_ym(dt), iter)

\* One iteration of "for act in activities".
ActStep(acc, act, grid_meters, sel_year, sel_sport, iter) ==
    IF acc.raised THEN acc
    ELSE IF ~Parseable(act.start_date_local)
    THEN [acc EXCEPT !.raised = TRUE]
    ELSE ActParsed(acc, act, strptime(act.start_date_local),
                   grid_meters, sel_year, sel_sport, iter)

RECURSIVE ActLoop(_, _, _, _, _, _)
ActLoop(acc, activities, grid_meters, sel_year, sel_sport, iter) ==
    IF activities = <<>> THEN acc
    ELSE ActLoop(ActStep(acc, activities[1], grid_meters,
                         sel_year, sel_sport, iter),
                 Tail(activities), grid_meters, sel_year, sel_sport, iter)

----------------------------------------------------------------------------
(* get_activities_route: the municipalities                                *)

ScanLimit == 400              \* sorted_locs[:400]
RegionCap == 50               \* len(identified_cities) < 50
ApproxScale == 10^4           \* round(lat, 2): keys per 0.01 degree

\* get_city_from_db answers None or a commune: its name, its area in m2 and
\* its outline.  The model's outlines are rectangles, kept as the bounds
\* <<min_lat, min_lon, max_lat, max_lon>> of the ring (in key units); the
\* empty outline is what a geometry that is no polygon gives.
NoCity == [name |-> "", area_m2 |-> 0, outline |-> <<>>]

\* The query's WHERE ST_Contains(geometry, point) LIMIT 1, and the except
\* branch (the store unreachable, the geometry malformed) that answers None.
InsideOutline(outline, cell) ==
    /\ outline # <<>>
    /\ outline[1] < cell[1] /\ cell[1] < outline[3]
    /\ outline[2] < cell[2] /\ cell[2] < outline[4]

get_city_from_db(lat, lon, db) ==
    IF ~db.up THEN NoCity
    ELSE IF \A c \in db.communes : ~InsideOutline(c.outline, <<lat, lon>>)
    THEN NoCity
    ELSE CHOOSE c \in db.communes : InsideOutline(c.outline, <<lat, lon>>)

\* sorted(grid_store.items(), key=cnt, reverse=True)[:400]: a stable sort
\* of the insertion order, most visited first.  RankByCount is the place an
\* item takes: behind the items visited more often and behind the earlier
\* items visited as often.
RankByCount(i, keys, grid_store) ==
    1 + Cardinality({ j \in 1..Len(keys) :
            \/ grid_store[keys[j]].cnt > grid_store[keys[i]].cnt
            \/ grid_store[keys[j]].cnt = grid_store[keys[i]].cnt /\ j < i })

SortByCount(keys, grid_store) ==
    [p \in 1..Len(keys) |->
        keys[CHOOSE i \in 1..Len(keys) :
                RankByCount(i, keys, grid_store) = p]]

Truncated(list, n) ==
    SubSeq(list, 1, IF Len(list) < n THEN Len(list) ELSE n)

ScanPoints(keys, grid_store) ==
    Truncated(SortByCount(keys, grid_store), ScanLimit)

ApproxKey(pt) == <<round_div(pt[1], 1, ApproxScale),
                   round_div(pt[2], 1, ApproxScale)>>

\* count_inside: the bounding box test, then prepared_poly.contains.
CountInside(outline, cells) ==
    Cardinality({ c \in cells :
        /\ outline[1] <= c[1] /\ c[1] <= outline[3]
        /\ outline[2] <= c[2] /\ c[2] <= outline[4]
        /\ InsideOutline(outline, c) })

\* round(min(pct, 100), 2) with pct = area_conquered_m2 / area_m2 * 100, in
\* hundredths of a percent.
PercentUnclamped(count_inside, grid_meters, area_m2) ==
    round_div(count_inside * grid_meters * grid_meters, 10000, area_m2)

Percent(count_inside, grid_meters, area_m2) ==
    IF count_inside * grid_meters * grid_meters >= area_m2 THEN 10000
    ELSE round_div(count_inside * grid_meters * grid_meters, 10000, area_m2)

Names(identified) == { identified[i].name : i \in 1..Len(identified) }

\* A build without the cap on identified_cities.
MayIdentifyUncapped(name, identified) == name \notin Names(identified)

\* if name not in identified_cities and len(identified_cities) < 50
MayIdentify(name, identified) ==
    name \notin Names(identified) /\ Len(identified) < RegionCap

RegionStart ==
    [local_city_cache |-> <<>>, identified |-> <<>>, queries |-> 0,
     late_queries |-> 0]

\* The try block: the polygon, count_inside, the entry of the commune.
Identify(st, muni, count_inside, grid_meters) ==
    IF muni.outline = <<>> THEN st           \* Polygon(...) raises
    ELSE IF count_inside = 0 THEN st
    ELSE IF muni.area_m2 = 0 THEN st         \* ZeroDivisionError
    ELSE [st EXCEPT !.identified =
            Append(@, [name    |-> muni.name,
                       outline |-> muni.outline,
                       blocks  |-> count_inside,
                       percent |-> Percent(count_inside, grid_meters,
                                           muni.area_m2)])]

\* if muni: ... if name not in identified_cities and len(..) < 50: try ...
Consider(st, muni, cells, grid_meters) ==
    IF muni = NoCity \/ ~MayIdentify(muni.name, st.identified) THEN st
    ELSE Identify(st, muni,
                  IF muni.outline = <<>> THEN 0
                  ELSE CountInside(muni.outline, cells),
                  grid_meters)

\* A build in which a failed lookup loses the communes identified so far.
AskedFailureDrops(st, approx_key, answer) ==
    [st EXCEPT
       !.local_city_cache = IF answer # NoCity THEN Put(@, approx_key, answer)
                            ELSE @,
       !.identified = IF answer = NoCity THEN <<>> ELSE @,
       !.queries = @ + 1,
       !.late_queries = IF Len(st.identified) >= RegionCap THEN @ + 1 ELSE @]

\* muni = get_city_from_db(lat, lon); if muni: local_city_cache[..] = muni.
\* queries counts the calls of get_city_from_db, late_queries those made
\* with the cap already reached.
Asked(st, approx_key, answer) ==
    [st EXCEPT
       !.local_city_cache = IF answer # NoCity THEN Put(@, approx_key, answer)
                            ELSE @,
       !.queries = @ + 1,
       !.late_queries = IF Len(st.identified) >= RegionCap THEN @ + 1 ELSE @]

\* One iteration of "for lat, lon in scan_points"; answer is what the store
\* answers if it is asked.  identified is identified_cities in insertion
\* order.
CityStep(st, pt, answer, cells, grid_meters) ==
    IF ApproxKey(pt) \in DOMAIN st.local_city_cache
    THEN Consider(st, st.local_city_cache[ApproxKey(pt)], cells, grid_meters)
    ELSE Consider(Asked(st, ApproxKey(pt), answer), answer, cells,
                  grid_meters)

RECURSIVE CityLoop(_, _, _, _, _)
CityLoop(st, scan_points, db, cells, grid_meters) ==
    IF scan_points = <<>> THEN st
    ELSE CityLoop(CityStep(st, scan_points[1],
                           get_city_from_db(scan_points[1][1],
                                            scan_points[1][2], db),
                           cells, grid_meters),
                  Tail(scan_points), db, cells, grid_meters)

\* sorted(identified_cities.values(), key=blocks, reverse=True): stable,
\* the region with the most cells first.
RankByBlocks(i, identified) ==
    1 + Cardinality({ j \in 1..Len(identified) :
            \/ identified[j].blocks > identified[i].blocks
            \/ identified[j].blocks = identified[i].blocks /\ j < i })

SortByBlocks(identified) ==
    [p \in 1..Len(identified) |->
        identified[CHOOSE i \in 1..Len(identified) :
                      RankByBlocks(i, identified) = p]]

TopMunicipalities(identified) == SortByBlocks(identified)

\* if grid_store and DB_URL: DB_URL is a non-empty literal.
Municipalities(acc, grid_meters, db) ==
    IF DOMAIN acc.grid_store = {} THEN <<>>
    ELSE TopMunicipalities(
            CityLoop(RegionStart, ScanPoints(acc.keys, acc.grid_store), db,
                     DOMAIN acc.grid_store, grid_meters).identified)

ActResult(acc, grid_meters, db) ==
    [coords             |-> acc.coords,
     grid_cells         |-> acc.grid_store,
     grid_size_used     |-> grid_meters,
     available_years    |-> acc.available_years,
     available_sports   |-> acc.available_sports,
     top_municipalities |-> Municipalities(acc, grid_meters, db),
     stats              |-> [total_distance  |-> acc.total_distance,
                             activity_count  |-> acc.activity_count,
                             cells_conquered |->
                                 Cardinality(DOMAIN acc.grid_store)]]

----------------------------------------------------------------------------
(* State                                                                   *)

VARIABLES
    RAW_DATA_CACHE,     \* token -> the cleaned track list (the list object)
    API_RESULT_CACHE,   \* token -> (cache_key -> payload)
    session,            \* client -> its access_token, or NoToken
    request,            \* the request served last
    response,           \* and the answer it got
    fetched,            \* history: token -> the list as it was fetched
    served,             \* number of data requests served so far
    contacts,           \* history: token -> calls that went to the track
                        \* source since the token's last logout
    q_pts, q_grid, q_cells, q_done,
    f_page,             \* page of the fetch loop
    f_all,              \* all_activities
    f_log,              \* history: the answers the loop received
    f_phase,            \* "loop", "clean" or "done"
    f_out,              \* what get_strava_activities_cached returned
    r_store,            \* grid_store of the request whose regions are sought
    r_grid,             \* its grid_meters
    r_db,               \* the communes table
    r_failures,         \* lookups that may still fail in this run
    r_scan,             \* scan_points not visited yet
    r_state,            \* local_city_cache, identified_cities, counters
    r_top,              \* data["top_municipalities"]
    r_done

appvars == <<RAW_DATA_CACHE, API_RESULT_CACHE, session, request, response,
             fetched, served, contacts>>
qvars == <<q_pts, q_grid, q_cells, q_done>>
fvars == <<f_page, f_all, f_log, f_phase, f_out>>
rvars == <<r_store, r_grid, r_db, r_failures, r_scan, r_state, r_top, r_done>>
vars == <<RAW_DATA_CACHE, API_RESULT_CACHE, session, request, response,
          fetched, served, contacts, q_pts, q_grid, q_cells, q_done,
          f_page, f_all, f_log, f_phase, f_out,
          r_store, r_grid, r_db, r_failures, r_scan, r_state, r_top, r_done>>

NoToken == "none"
Clients == {"c1"}
Tokens == {"t1", "t2"}

NoRequest == [endpoint |-> "none", client |-> "none", token |-> NoToken,
              grid_meters |-> 0, year |-> "all", sport |-> "all"]
NoResponse == [status |-> 0, cached |-> FALSE, body |-> <<>>]

AppIdle ==
    /\ RAW_DATA_CACHE = <<>>
    /\ API_RESULT_CACHE = <<>>
    /\ request = NoRequest
    /\ response = NoResponse
    /\ fetched = <<>>
    /\ served = 0
    /\ contacts = <<>>

QIdle ==
    /\ q_pts = <<>>
    /\ q_grid = 0
    /\ q_cells = {}
    /\ q_done = TRUE

FIdle ==
    /\ f_page = 1
    /\ f_all = <<>>
    /\ f_log = <<>>
    /\ f_phase = "done"
    /\ f_out = <<>>

RIdle ==
    /\ r_store = <<>>
    /\ r_grid = 0
    /\ r_db = [up |-> FALSE, communes |-> {}]
    /\ r_failures = 0
    /\ r_scan = <<>>
    /\ r_state = RegionStart
    /\ r_top = <<>>
    /\ r_done = TRUE

----------------------------------------------------------------------------
(* The routes                                                              *)

\* /callback: the token exchange answered 200 (ok) or not.
callback(c, token, ok) ==
    /\ session' = IF ok THEN [session EXCEPT ![c] = token] ELSE session
    /\ UNCHANGED <<RAW_DATA_CACHE, API_RESULT_CACHE, request, response,
                   fetched, served, contacts>>
    /\ UNCHANGED <<qvars, rvars, fvars>>

\* A build whose logout forgets the track list and keeps the payloads.
logoutKeepsPayloads(c) ==
    /\ RAW_DATA_CACHE' = IF session[c] # NoToken
                         THEN Pop(RAW_DATA_CACHE, session[c])
                         ELSE RAW_DATA_CACHE
    /\ session' = [session EXCEPT ![c] = NoToken]
    /\ contacts' = IF session[c] # NoToken THEN Pop(contacts, session[c])
                   ELSE contacts
    /\ UNCHANGED <<API_RESULT_CACHE, request, response, fetched, served>>
    /\ UNCHANGED <<qvars, rvars, fvars>>

\* /logout
logout(c) ==
    /\ RAW_DATA_CACHE' = IF session[c] # NoToken
                         THEN Pop(RAW_DATA_CACHE, session[c])
                         ELSE RAW_DATA_CACHE
    /\ API_RESULT_CACHE' = IF session[c] # NoToken
                           THEN Pop(API_RESULT_CACHE, session[c])
                           ELSE API_RESULT_CACHE
    /\ session' = [session EXCEPT ![c] = NoToken]
    /\ contacts' = IF session[c] # NoToken THEN Pop(contacts, session[c])
                   ELSE contacts
    /\ UNCHANGED <<request, response, fetched, served>>
    /\ UNCHANGED <<qvars, rvars, fvars>>

\* get_strava_activities_cached(token): the cached list, or the cleaned
\* result of the page loop against `upstream`.
\* A build without "if token in RAW_DATA_CACHE": every call fetches.
get_strava_activities_uncached(token, upstream) ==
    Cleaned(FetchPages(upstream, 1, <<>>))

get_strava_activities_cached(token, upstream) ==
    IF token \in DOMAIN RAW_DATA_CACHE THEN RAW_DATA_CACHE[token]
    ELSE Cleaned(FetchPages(upstream, 1, <<>>))

\* if token not in API_RESULT_CACHE: API_RESULT_CACHE[token] = {}
WithToken(token) ==
    IF token \in DOMAIN API_RESULT_CACHE THEN API_RESULT_CACHE
    ELSE Put(API_RESULT_CACHE, token, <<>>)

Unauthorized ==
    /\ response' = [status |-> 401, cached |-> FALSE, body |-> <<>>]
    /\ UNCHANGED <<RAW_DATA_CACHE, API_RESULT_CACHE, fetched, contacts>>

FromCache(token, cache_key) ==
    /\ response' = [status |-> 200, cached |-> TRUE,
                    body |-> API_RESULT_CACHE[token][cache_key]]
    /\ UNCHANGED <<RAW_DATA_CACHE, API_RESULT_CACHE, fetched, contacts>>

CacheHit(token, cache_key) ==
    /\ token \in DOMAIN API_RESULT_CACHE
    /\ cache_key \in DOMAIN API_RESULT_CACHE[token]

\* The exception leaves the route: the answer is a 500.
Raised(token) ==
    /\ response' = [status |-> 500, cached |-> FALSE, body |-> <<>>]
    /\ API_RESULT_CACHE' = WithToken(token)

\* API_RESULT_CACHE[token][cache_key] = result; return jsonify(result)
Returned(token, cache_key, result) ==
    /\ response' = [status |-> 200, cached |-> FALSE, body |-> result]
    /\ API_RESULT_CACHE' =
          [WithToken(token) EXCEPT ![token] = Put(@, cache_key, result)]

\* RAW_DATA_CACHE[token] is the list object the route worked on.
Loaded(token, cleaned, activities) ==
    /\ RAW_DATA_CACHE' = Put(RAW_DATA_CACHE, token, activities)
    /\ fetched' = IF token \in DOMAIN RAW_DATA_CACHE THEN fetched
                  ELSE Put(fetched, token, cleaned)
    /\ contacts' = IF token \in DOMAIN RAW_DATA_CACHE THEN contacts
                   ELSE IF token \in DOMAIN contacts
                   THEN Put(contacts, token, contacts[token] + 1)
                   ELSE Put(contacts, token, 1)

StatsAnswer(token, cache_key, acc) ==
    IF acc.raised THEN Raised(token)
    ELSE Returned(token, cache_key, StatsResult(acc))

\* activities.sort(key=...) sorts the cached list in place.
StatsCompute(token, cache_key, cleaned, activities, grid_meters, sel_year, sel_sport) ==
    /\ Loaded(token, cleaned, activities)
    /\ StatsAnswer(token, cache_key,
                   StatsLoop(StatsStart, activities, grid_meters,
                             sel_year, sel_sport))

StatsRoute(token, cache_key, grid_meters, sel_year, sel_sport, upstream) ==
    IF token = NoToken THEN Unauthorized
    ELSE IF CacheHit(token, cache_key) THEN FromCache(token, cache_key)
    ELSE StatsCompute(token, cache_key,
                      get_strava_activities_cached(token, upstream),
                      SortByStart(get_strava_activities_cached(token,
                                                               upstream)),
                      grid_meters, sel_year, sel_sport)

\* /api/stats_history
get_stats_history(c, grid_meters, sel_year, sel_sport, upstream) ==
    /\ request' = [endpoint |-> "stats", client |-> c, token |-> session[c],
                   grid_meters |-> grid_meters, year |-> sel_year,
                   sport |-> sel_sport]
    /\ served' = served + 1
    /\ UNCHANGED session
    /\ UNCHANGED <<qvars, rvars, fvars>>
    /\ StatsRoute(session[c],
                  <<"stats", grid_meters, sel_year, sel_sport>>,
                  grid_meters, sel_year, sel_sport, upstream)

ActAnswer(token, cache_key, acc, grid_meters, db) ==
    IF acc.raised THEN Raised(token)
    ELSE Returned(token, cache_key, ActResult(acc, grid_meters, db))

ActCompute(token, cache_key, activities, grid_meters, sel_year, sel_sport, db, iter) ==
    /\ Loaded(token, activities, activities)
    /\ ActAnswer(token, cache_key,
                 ActLoop(ActStart, activities, grid_meters, sel_year,
                         sel_sport, iter),
                 grid_meters, db)

ActRoute(token, cache_key, grid_meters, sel_year, sel_sport, upstream, db, iter) ==
    IF token = NoToken THEN Unauthorized
    ELSE IF CacheHit(token, cache_key) THEN FromCache(token, cache_key)
    ELSE ActCompute(token, cache_key,
                    get_strava_activities_cached(token, upstream),
                    grid_meters, sel_year, sel_sport, db, iter)

\* /api/activities
get_activities_route(c, grid_meters, sel_year, sel_sport, upstream, db, iter) ==
    /\ request' = [endpoint |-> "activities", client |-> c,
                   token |-> session[c], grid_meters |-> grid_meters,
                   year |-> sel_year, sport |-> sel_sport]
    /\ served' = served + 1
    /\ UNCHANGED session
    /\ UNCHANGED <<qvars, rvars, fvars>>
    /\ ActRoute(session[c], <<"act", grid_meters, sel_year, sel_sport>>,
                grid_meters, sel_year, sel_sport, upstream, db, iter)

----------------------------------------------------------------------------
(* Inputs                                                                  *)

MaxTracks == 2
MaxRequests == 2

Jan2023 == <<2, 0, 2, 3, 0, 1>>
Feb2024 == <<2, 0, 2, 4, 0, 2>>
Month13 == <<2, 0, 2, 3, 1, 3>>     \* "2023-13-..": strptime raises

Track(type, start, poly) ==
    [type |-> type, start_date_local |-> start, polyline |-> poly,
     distance |-> 1000]

AggTracks ==
    { Track(t, s, p) : t \in {"Run", "Ride"},
                       s \in {Jan2023, Feb2024, Month13},
                       p \in {"A", "B"} }

OkPage(data) == [raises |-> FALSE, status |-> 200, data |-> data]

\* The upstream delivers one page with the tracks, in any order.
AggUpstreams == { <<OkPage(l)>> : l \in SeqsUpTo(AggTracks, MaxTracks) }

GridSizes == {100}
SelYears == {"all", "2023"}
SelSports == {"all", "Run"}

\* The communes table of the store: one commune around every cell of the
\* polylines A and B at 100 m, one with an area of 0.
ParisCommunes ==
    { [name |-> "Paris", area_m2 |-> 40000,
       outline |-> <<48856000, 2351000, 48858000, 2352000>>],
      [name |-> "Ivry", area_m2 |-> 0,
       outline |-> <<48857000, 2352000, 48858000, 2353000>>] }

Stores == { [up |-> TRUE, communes |-> ParisCommunes],
            [up |-> FALSE, communes |-> ParisCommunes] }
Iters == {"asc", "desc"}

----------------------------------------------------------------------------
(* SpecAgg: one data request of a logged-in client on a fresh process      *)

AggInit ==
    /\ AppIdle
    /\ QIdle
    /\ RIdle
    /\ FIdle
    /\ session = [c \in Clients |-> IF c = "c1" THEN "t1" ELSE NoToken]

AggStats ==
    /\ served = 0
    /\ \E g \in GridSizes, y \in SelYears, s \in SelSports,
          u \in AggUpstreams :
          get_stats_history("c1", g, y, s, u)

AggActivities ==
    /\ served = 0
    /\ \E g \in GridSizes, y \in SelYears, s \in SelSports,
          u \in AggUpstreams, db \in Stores, iter \in Iters :
          get_activities_route("c1", g, y, s, u, db, iter)

AggNext == AggStats \/ AggActivities

SpecAgg == AggInit /\ [][AggNext]_vars

----------------------------------------------------------------------------
(* Spec: clients log in and out and ask for data, in any order             *)

Early == Track("Ride", Jan2023, "B")
Late == Track("Run", Feb2024, "A")
Swim == [type |-> "Swim", start_date_local |-> Jan2023, polyline |-> "C",
         distance |-> 500]

\* What the upstream may answer to the page requests of one fetch: a later
\* track before an earlier one; two pages; a failure at once; a failure
\* after the first page.
MainUpstreams ==
    { <<OkPage(<<Late, Early>>)>>,
      <<OkPage(<<Early, Swim>>), OkPage(<<Late>>)>>,
      <<[raises |-> TRUE, status |-> 0, data |-> <<>>]>>,
      <<OkPage(<<Late>>), [raises |-> FALSE, status |-> 500, data |-> <<>>]>> }

Init ==
    /\ AppIdle
    /\ QIdle
    /\ RIdle
    /\ FIdle
    /\ session = [c \in Clients |-> NoToken]

Login == \E c \in Clients, t \in Tokens, ok \in BOOLEAN : callback(c, t, ok)

Logout == \E c \in Clients : logout(c)

\* The requests of this specification filter by year only, and the store
\* is reachable.
MainSports == {"all"}
MainStores == { [up |-> TRUE, communes |-> ParisCommunes] }
MainIters == {"asc"}

Stats ==
    /\ served < MaxRequests
    /\ \E c \in Clients, g \in GridSizes, y \in SelYears, s \in MainSports,
          u \in MainUpstreams :
          get_stats_history(c, g, y, s, u)

Activities ==
    /\ served < MaxRequests
    /\ \E c \in Clients, g \in GridSizes, y \in SelYears, s \in MainSports,
          u \in MainUpstreams, db \in MainStores, iter \in MainIters :
          get_activities_route(c, g, y, s, u, db, iter)

Next == Login \/ Logout \/ Stats \/ Activities

Spec == Init /\ [][Next]_vars

----------------------------------------------------------------------------
(* What a request should have computed, said over the fetched tracks       *)

\* The tracks of the request's token, in the order the source delivered
\* them, and those among them the request's filter lets through.
Delivered == fetched[request.token]

MonthOf(track) == strftime_ym(strptime(track.start_date_local))
YearOf(track) == y_str(strptime(track.start_date_local))

Scanned ==
    { i \in 1..Len(Delivered) :
        /\ Parseable(Delivered[i].start_date_local)
        /\ request.year = "all" \/ request.year = YearOf(Delivered[i])
        /\ request.sport = "all" \/ request.sport = Delivered[i].type }

CellsOf(i) == Blocks(Delivered[i], request.grid_meters)

DistinctCells(I) == UNION { CellsOf(i) : i \in I }

Visits(c, I) == { i \in I : c \in CellsOf(i) }

Least(S) == CHOOSE x \in S : \A y \in S : x <= y
Greatest(S) == CHOOSE x \in S : \A y \in S : x >= y

\* The month of the earliest of the tracks I that contain c.
FirstMonth(c, I) == Least({ MonthOf(Delivered[i]) : i \in Visits(c, I) })
LastMonth(c, I) == Greatest({ MonthOf(Delivered[i]) : i \in Visits(c, I) })

\* The number of (track, cell) pairs of the tracks I, all or of month m.
Occurrences(I) == SumOver([i \in I |-> Cardinality(CellsOf(i))], I)
OccurrencesIn(m, I) ==
    Occurrences({ i \in I : MonthOf(Delivered[i]) = m })

StoreOver(I) ==
    [c \in DistinctCells(I) |->
        [cnt   |-> Cardinality(Visits(c, I)),
         first |-> FirstMonth(c, I),
         last  |-> LastMonth(c, I)]]

StatsReturned ==
    request.endpoint = "stats" /\ response.status = 200
ActReturned ==
    request.endpoint = "activities" /\ response.status = 200

FilterActive == request.year # "all" \/ request.sport # "all"

----------------------------------------------------------------------------
(* Claims about get_stats_history                                          *)

\* C1: the conquest series is non-decreasing, each entry is the sum of the
\* 'new' counts of the months up to it, and its last entry is total_blocks,
\* the number of distinct cells of the scanned tracks.
C1_MonotonicConquest ==
    StatsReturned =>
        /\ Len(response.body.conquest) = Len(response.body.labels)
        /\ \A k \in 1..(Len(response.body.conquest) - 1) :
              response.body.conquest[k] <= response.body.conquest[k + 1]
        /\ \A k \in 1..Len(response.body.conquest) :
              response.body.conquest[k]
                 = SumSeq(SubSeq(response.body.exploration, 1, k))
        /\ response.body.conquest # <<>> =>
              response.body.conquest[Len(response.body.conquest)]
                 = response.body.total_blocks
        /\ response.body.total_blocks = Cardinality(DistinctCells(Scanned))

\* Two months, the second one with new cells and with cells seen before.
C1_Witness ==
    /\ StatsReturned
    /\ Len(response.body.conquest) = 2
    /\ response.body.conquest[1] < response.body.conquest[2]
    /\ response.body.routine[2] > 0

\* C2: every distinct cell is 'new' once, in the month of the earliest
\* scanned track that contains it, and 'routine' in the month of every other
\* scanned track that contains it, whatever the order of delivery.
C2_NewAtFirstOccurrence ==
    StatsReturned =>
        /\ { response.body.labels[k] : k \in 1..Len(response.body.labels) }
              = { MonthOf(Delivered[i]) : i \in Scanned }
        /\ \A k \in 1..Len(response.body.labels) :
              /\ response.body.exploration[k]
                    = Cardinality({ c \in DistinctCells(Scanned) :
                        FirstMonth(c, Scanned) = response.body.labels[k] })
              /\ response.body.exploration[k] + response.body.routine[k]
                    = OccurrencesIn(response.body.labels[k], Scanned)

\* The source delivered a later track before an earlier one, and the two
\* share a cell.
C2_Witness ==
    /\ StatsReturned
    /\ \E i \in Scanned, j \in Scanned :
          /\ i < j
          /\ MonthOf(Delivered[i]) > MonthOf(Delivered[j])
          /\ CellsOf(i) \cap CellsOf(j) # {}

\* C3: over all months, 'new' plus 'routine' is the number of (track, cell)
\* pairs of the scanned tracks.
C3_NewRoutinePartition ==
    StatsReturned =>
        SumSeq(response.body.exploration) + SumSeq(response.body.routine)
            = Occurrences(Scanned)

\* An active filter, and a scanned track with two cells that were seen
\* before.
C3_Witness ==
    /\ StatsReturned
    /\ FilterActive
    /\ SumSeq(response.body.exploration) >= 2
    /\ SumSeq(response.body.routine) >= 2

\* C4: a track whose start timestamp does not parse is left out and the
\* request still returns a result, over the remaining tracks.
C4_BadTrackRejected ==
    request.token # NoToken =>
        /\ response.status = 200
        /\ request.endpoint = "stats" =>
              response.body.total_blocks = Cardinality(DistinctCells(Scanned))
        /\ request.endpoint = "activities" =>
              response.body.grid_cells = StoreOver(Scanned)

----------------------------------------------------------------------------
(* Claims about the per-cell store of get_activities_route                 *)

\* C5 as stated: the store is that of all fetched tracks, whatever the
\* filter.
C5_StoreUnfiltered ==
    ActReturned => response.body.grid_cells = StoreOver(1..Len(Delivered))

\* C5 as amended: the store is that of the tracks the filter lets through
\* (count, first and last period over those tracks); it is the store of all
\* fetched tracks when the filter is 'all'.
C5_StoreFiltered ==
    ActReturned =>
        /\ response.body.grid_cells = StoreOver(Scanned)
        /\ response.body.stats.cells_conquered
              = Cardinality(DistinctCells(Scanned))
        /\ ~FilterActive =>
              response.body.grid_cells = StoreOver(1..Len(Delivered))

\* A filter that lets one track through and keeps another, with cells of
\* its own, out of the store.
C5_Witness ==
    /\ ActReturned
    /\ FilterActive
    /\ Scanned # {}
    /\ DistinctCells(1..Len(Delivered)) # DistinctCells(Scanned)

\* C12: the facet lists of an answer of either endpoint are those of all
\* fetched tracks, the tracks the filter excludes included: they do not
\* depend on the year and sport the request selects.
C12_FacetsUnfiltered ==
    (StatsReturned \/ ActReturned) =>
        /\ response.body.available_years =
              { YearOf(Delivered[i]) : i \in 1..Len(Delivered) }
        /\ response.body.available_sports =
              { Delivered[i].type : i \in 1..Len(Delivered) }

\* An answer under a filter that excludes a track of another year and a
\* track of another sport.
C12_Witness ==
    /\ StatsReturned \/ ActReturned
    /\ request.year # "all" /\ request.sport # "all"
    /\ \E i \in 1..Len(Delivered) : YearOf(Delivered[i]) # request.year
    /\ \E i \in 1..Len(Delivered) : Delivered[i].type # request.sport
    /\ Cardinality(response.body.available_years) = 2
    /\ Cardinality(response.body.available_sports) = 2

\* grid_store after the first k tracks of the list have been processed.
StoreAfter(k) ==
    ActLoop(ActStart, SubSeq(Delivered, 1, k), request.grid_meters,
            request.year, request.sport, "asc").grid_store

\* Every record of `before` is in `after`, its count no smaller and its
\* periods no narrower.
Widened(before, after) ==
    \A c \in DOMAIN before :
        /\ c \in DOMAIN after
        /\ after[c].cnt >= before[c].cnt
        /\ after[c].first <= before[c].first
        /\ after[c].last >= before[c].last

\* C15: in the store of an answer of /api/activities every record has a
\* count of at least 1, equal to the number of processed tracks that hold
\* the cell, the earliest of their months as first and the latest as last
\* (first <= last), whatever the order of the tracks; and a record present
\* after k tracks is present, with a count no smaller and periods no
\* narrower, after k + 1.
C15_StoreRecords ==
    ActReturned =>
        /\ StoreAfter(Len(Delivered)) = response.body.grid_cells
        /\ \A c \in DOMAIN response.body.grid_cells :
              /\ response.body.grid_cells[c].cnt >= 1
              /\ response.body.grid_cells[c].cnt
                    = Cardinality(Visits(c, Scanned))
              /\ response.body.grid_cells[c].first = FirstMonth(c, Scanned)
              /\ response.body.grid_cells[c].last = LastMonth(c, Scanned)
              /\ response.body.grid_cells[c].first
                    <= response.body.grid_cells[c].last
        /\ \A k \in 0..(Len(Delivered) - 1) :
              Widened(StoreAfter(k), StoreAfter(k + 1))

\* A cell visited by two processed tracks of different months, the later
\* month processed first.
C15_Witness ==
    /\ ActReturned
    /\ Len(Delivered) = 2
    /\ Scanned = {1, 2}
    /\ MonthOf(Delivered[1]) > MonthOf(Delivered[2])
    /\ \E c \in DOMAIN response.body.grid_cells :
          /\ response.body.grid_cells[c].cnt = 2
          /\ response.body.grid_cells[c].first
                < response.body.grid_cells[c].last

----------------------------------------------------------------------------
(* SpecCells: the quantizer on its own                                     *)

\* Points around (48.8566, 2.3522).
MaxPts == 3
QLats == {488566, 488570, 488576}
QLons == {23522, 23529}
QPoints == QLats \X QLons
QGrids == {1, 50, 100, 250}

QInit ==
    /\ q_pts \in SeqsUpTo(QPoints, MaxPts)
    /\ q_grid \in QGrids
    /\ q_cells = {}
    /\ q_done = FALSE
    /\ AppIdle
    /\ RIdle
    /\ FIdle
    /\ session = [c \in Clients |-> NoToken]

Quantize ==
    /\ ~q_done
    /\ q_cells' = get_cells_from_polyline(q_pts, q_grid)
    /\ q_done' = TRUE
    /\ UNCHANGED <<q_pts, q_grid>>
    /\ UNCHANGED <<appvars, rvars, fvars>>

QNext == Quantize

SpecCells == QInit /\ [][QNext]_vars

----------------------------------------------------------------------------
(* Claims about the caches                                                 *)

\* to_key applied to a key: the key's coordinates are in units of
\* 1/KeyScale degree, that is 1/(KeyScale/PointScale) point units.
to_key_again(key, grid_meters) ==
    to_key(key[1], key[2], KeyScale \div PointScale, grid_meters)

\* C11: quantization is idempotent: to_key of a key the quantizer returned,
\* with the same spacing, is that key.
C11_Idempotent ==
    q_done => \A k \in q_cells : to_key_again(k, q_grid) = k

\* A returned key that is off the exact multiple of the spacing (round(.., 6)
\* moved it), so that quantizing it again has to round.
C11_Witness ==
    /\ q_done
    /\ \E k \in q_cells :
          /\ MulDivMod(k[1], MetersPerDegree,
                       (KeyScale \div PointScale) * PointScale * q_grid).r # 0
          /\ to_key_again(k, q_grid) = k

----------------------------------------------------------------------------
(* The page loop of get_strava_activities_cached, one request a step       *)

\* What the upstream may answer to a page request: an exception (timeout,
\* no JSON), a status other than 200, an empty page, a page of activities.
PageData == { <<Early>>, <<Swim, Late>> }
FetchResponses ==
    { [raises |-> TRUE, status |-> 0, data |-> <<>>],
      [raises |-> FALSE, status |-> 500, data |-> <<>>],
      OkPage(<<>>) }
    \cup { OkPage(d) : d \in PageData }

FetchInit ==
    /\ f_page = 1
    /\ f_all = <<>>
    /\ f_log = <<>>
    /\ f_phase = "loop"
    /\ f_out = <<>>
    /\ AppIdle
    /\ QIdle
    /\ RIdle
    /\ session = [c \in Clients |-> NoToken]

\* One iteration of "while True": the request for f_page and its answer.
PageRequest ==
    /\ f_phase = "loop"
    /\ \E resp \in FetchResponses :
        /\ f_log' = Append(f_log, resp)
        /\ IF Stops(resp)
           THEN /\ f_phase' = "clean"
                /\ UNCHANGED <<f_page, f_all>>
           ELSE /\ f_all' = f_all \o resp.data
                /\ f_page' = f_page + 1
                /\ f_phase' = IF LastPage(f_page) THEN "clean" ELSE "loop"
    /\ UNCHANGED f_out
    /\ UNCHANGED <<appvars, qvars, rvars>>

\* The cleaning loop, RAW_DATA_CACHE[token] = cleaned_data and the return.
FetchReturn ==
    /\ f_phase = "clean"
    /\ f_out' = Cleaned(f_all)
    /\ f_phase' = "done"
    /\ UNCHANGED <<f_page, f_all, f_log>>
    /\ UNCHANGED <<appvars, qvars, rvars>>

FetchNext == PageRequest \/ FetchReturn

SpecFetch == FetchInit /\ [][FetchNext]_vars

\* The activities of the pages the loop received before the answer that
\* stopped it.
RECURSIVE Received(_)
Received(log) ==
    IF log = <<>> THEN <<>>
    ELSE IF Stops(log[1]) THEN <<>>
    ELSE log[1].data \o Received(Tail(log))

\* C16: the page loop issues at most 10 requests and ends: while it runs the
\* number of requests made is below 10 and each request either ends the loop
\* or moves to the next page; it then returns, raising nothing, the cleaned
\* activities of the pages received before the answer that stopped it (an
\* exception, a status other than 200, an empty page) or the tenth page.
C16_FetchBounded ==
    /\ Len(f_log) <= 10
    /\ f_phase = "loop" => Len(f_log) = f_page - 1 /\ f_page <= 10
    /\ f_phase = "loop" => \A i \in 1..Len(f_log) : ~Stops(f_log[i])
    /\ f_phase # "loop" =>
          \/ Stops(f_log[Len(f_log)])
          \/ Len(f_log) = 10
    /\ f_phase = "done" =>
          /\ f_out = Cleaned(Received(f_log))
          /\ f_out = Cleaned(FetchPages(f_log, 1, <<>>))

\* The loop was stopped by the cap, after ten pages of activities.
C16_Witness ==
    /\ f_phase = "done"
    /\ Len(f_log) = 10
    /\ ~Stops(f_log[10])
    /\ Len(f_out) = 10

----------------------------------------------------------------------------
(* The municipality loop of get_activities_route, one scan point a step    *)

RunLength == 72
MaxFailures == 1

Visited(cnt) == [cnt |-> cnt, first |-> 202301, last |-> 202301]

\* A run of cells 0.02 degree apart, each in a commune of its own; the
\* communes of the first two cells bear the same name.
RunCell(i) == <<48000000 + 20000 * i, 2000000>>
RunCommune(i) ==
    [name    |-> IF i = 2 THEN ToString(1) ELSE ToString(i),
     area_m2 |-> 1000000 + i,
     outline |-> <<RunCell(i)[1] - 5000, 1995000,
                   RunCell(i)[1] + 5000, 2005000>>]
RunKeys == [i \in 1..RunLength |-> RunCell(i)]
RunStore == [k \in {RunCell(i) : i \in 1..RunLength} |-> Visited(1)]
RunTable == [up |-> TRUE, communes |-> {RunCommune(i) : i \in 1..RunLength}]

\* Four neighbouring cells of the 100 m grid, and two cells further north.
BlockCells == {<<48856450, 2351779>>, <<48857348, 2351779>>,
               <<48856450, 2352677>>, <<48857348, 2352677>>}
North1 == <<48956450, 2351779>>
North2 == <<49056450, 2351779>>
BlockKeys == <<<<48856450, 2351779>>, <<48857348, 2351779>>,
               <<48856450, 2352677>>, <<48857348, 2352677>>, North1, North2>>
BlockStore(n1) ==
    [k \in BlockCells \cup {North1, North2} |->
        IF k = North1 THEN Visited(n1)
        ELSE IF k = North2 THEN Visited(1) ELSE Visited(2)]

\* Paris has the area of four cells; Grand Paris holds five cells on the
\* area of one; the second Paris is another commune of that name; Nulle has
\* no area; Vide is a geometry that is no polygon.
BlockTable ==
    [up |-> TRUE,
     communes |-> {
       [name |-> "Paris", area_m2 |-> 40000,
        outline |-> <<48856000, 2351000, 48858000, 2353000>>],
       [name |-> "Grand Paris", area_m2 |-> 10000,
        outline |-> <<48000000, 2000000, 49000000, 3000000>>],
       [name |-> "Paris", area_m2 |-> 1000000,
        outline |-> <<48950000, 2350000, 48960000, 2353000>>],
       [name |-> "Tiers", area_m2 |-> 30000,
        outline |-> <<49050000, 2350000, 49060000, 2353000>>],
       [name |-> "Nulle", area_m2 |-> 0,
        outline |-> <<49050000, 2351000, 49060000, 2352000>>],
       [name |-> "Vide", area_m2 |-> 5, outline |-> <<>>] }]

RegionRuns ==
    { [keys |-> RunKeys, store |-> RunStore, db |-> RunTable, failures |-> 0] }
    \cup
    { [keys |-> BlockKeys, store |-> BlockStore(n1), db |-> BlockTable,
       failures |-> MaxFailures] : n1 \in {1, 3} }

\* What the query may answer for a point: LIMIT 1 without ORDER BY takes any
\* row that contains it, and a failed lookup answers None.
StoreAnswers(pt, db, failures) ==
    { c \in db.communes :
        c.outline = <<>> \/ InsideOutline(c.outline, pt) }
    \cup (IF failures > 0 THEN {NoCity} ELSE {})

Answers(pt, db, failures) ==
    IF StoreAnswers(pt, db, failures) = {} THEN {NoCity}
    ELSE StoreAnswers(pt, db, failures)

RegionInit ==
    /\ \E run \in RegionRuns :
        /\ r_store = run.store
        /\ r_db = run.db
        /\ r_failures = run.failures
        /\ r_scan = ScanPoints(run.keys, run.store)
    /\ r_grid = 100
    /\ r_state = RegionStart
    /\ r_top = <<>>
    /\ r_done = FALSE
    /\ AppIdle
    /\ QIdle
    /\ FIdle
    /\ session = [c \in Clients |-> NoToken]

\* for lat, lon in scan_points: one iteration.
ScanPoint ==
    /\ ~r_done
    /\ r_scan # <<>>
    /\ \E answer \in Answers(Head(r_scan), r_db, r_failures) :
        /\ r_state' = CityStep(r_state, Head(r_scan), answer,
                               DOMAIN r_store, r_grid)
        /\ r_failures' =
             IF /\ answer = NoCity
                /\ ApproxKey(Head(r_scan)) \notin
                       DOMAIN r_state.local_city_cache
                /\ r_failures > 0
             THEN r_failures - 1 ELSE r_failures
    /\ r_scan' = Tail(r_scan)
    /\ UNCHANGED <<r_store, r_grid, r_db, r_top, r_done>>
    /\ UNCHANGED <<appvars, qvars, fvars>>

\* data["top_municipalities"] = sorted(identified_cities.values(), ...)
RegionsSorted ==
    /\ ~r_done
    /\ r_scan = <<>>
    /\ r_top' = TopMunicipalities(r_state.identified)
    /\ r_done' = TRUE
    /\ UNCHANGED <<r_store, r_grid, r_db, r_failures, r_scan, r_state>>
    /\ UNCHANGED <<appvars, qvars, fvars>>

RegionNext == ScanPoint \/ RegionsSorted

SpecRegion == RegionInit /\ [][RegionNext]_vars

\* The regions held so far and those returned.
Regions == { r_state.identified[i] : i \in 1..Len(r_state.identified) }
              \cup { r_top[i] : i \in 1..Len(r_top) }

CommuneOf(e) ==
    CHOOSE c \in r_db.communes : c.name = e.name /\ c.outline = e.outline

CellsInside(c) ==
    Cardinality({ k \in DOMAIN r_store :
        /\ c.outline[1] < k[1] /\ k[1] < c.outline[3]
        /\ c.outline[2] < k[2] /\ k[2] < c.outline[4] })

\* 100 * cells_inside * grid_meters^2 / region_area_m2, rounded to two
\* decimals, in hundredths of a percent.
Coverage(cells_inside, area_m2) ==
    round_div(cells_inside * r_grid * r_grid, 10000, area_m2)

\* C7: every region held or returned has a percent of at most 100, equal to
\* min(100, 100 * cells_inside * grid_meters^2 / region_area_m2) rounded to
\* two decimals; a region of exactly four cell areas with four visited cells
\* inside has exactly 100.
C7_CoverageBounded ==
    \A e \in Regions :
        /\ e.percent <= 10000
        /\ e.blocks = CellsInside(CommuneOf(e))
        /\ e.percent =
             IF Coverage(e.blocks, CommuneOf(e).area_m2) > 10000 THEN 10000
             ELSE Coverage(e.blocks, CommuneOf(e).area_m2)
        /\ (e.blocks = 4 /\ CommuneOf(e).area_m2 = 4 * r_grid * r_grid)
              => e.percent = 10000

\* The returned list holds the region of four cell areas with its four
\* cells, a region whose cells exceed its area, and a region covered in part.
C7_Witness ==
    /\ r_done
    /\ \E i \in 1..Len(r_top) :
          /\ r_top[i].blocks = 4 /\ r_top[i].percent = 10000
          /\ CommuneOf(r_top[i]).area_m2 = 4 * r_grid * r_grid
    /\ \E i \in 1..Len(r_top) :
          r_top[i].blocks * r_grid * r_grid > CommuneOf(r_top[i]).area_m2
    /\ \E i \in 1..Len(r_top) : r_top[i].percent < 10000

\* C8: the attribution holds and returns at most 70 regions, no name twice,
\* and a region once identified is never replaced by a later answer of the
\* same name (the cap and the names are those of the whole run).
C8_RegionCap ==
    [][/\ Len(r_state'.identified) <= 70
       /\ Len(r_top') <= 70
       /\ \A i, j \in 1..Len(r_state'.identified) :
             r_state'.identified[i].name = r_state'.identified[j].name
                => i = j
       /\ \A i, j \in 1..Len(r_top') :
             r_top'[i].name = r_top'[j].name => i = j
       /\ Len(r_state'.identified) >= Len(r_state.identified)
       /\ SubSeq(r_state'.identified, 1, Len(r_state.identified))
             = r_state.identified
       /\ r_done' =>
             { r_top'[i] : i \in 1..Len(r_top') }
                = { r_state'.identified[i] :
                      i \in 1..Len(r_state'.identified) }]_vars

\* A finished run that met more names than the cap and met a name twice.
C8_Witness ==
    /\ r_done
    /\ Len(r_top) = RegionCap
    /\ r_state.queries > RegionCap + 1
    /\ Len(r_state.identified) < Cardinality(DOMAIN r_state.local_city_cache)

\* C13: a lookup that fails (the store answers nothing, or a geometry that
\* is no polygon) skips that probe only: the regions identified before it
\* stay, in place, the loop goes on to the next scan point and still asks the
\* store for every point whose neighbourhood is not in the local cache, and
\* the run ends with the list of the regions identified.
C13_FailureContained ==
    [][/\ r_failures' < r_failures =>
             /\ r_state'.identified = r_state.identified
             /\ r_state'.local_city_cache = r_state.local_city_cache
             /\ r_scan' = Tail(r_scan)
       /\ (/\ r_scan' # r_scan
           /\ ApproxKey(Head(r_scan)) \in DOMAIN r_state'.local_city_cache
           /\ r_state'.local_city_cache[ApproxKey(Head(r_scan))].outline
                 = <<>>) =>
             r_state'.identified = r_state.identified
       /\ (/\ r_scan' # r_scan
           /\ ApproxKey(Head(r_scan)) \notin DOMAIN r_state.local_city_cache)
             => r_state'.queries = r_state.queries + 1
       /\ SubSeq(r_state'.identified, 1, Len(r_state.identified))
             = r_state.identified
       /\ (r_done' /\ ~r_done) =>
             /\ r_scan = <<>>
             /\ Len(r_top') = Len(r_state.identified)
             /\ \A i \in 1..Len(r_state.identified) :
                   \E j \in 1..Len(r_top') :
                      r_top'[j] = r_state.identified[i]]_vars

\* A finished run in which a lookup failed, with regions in the list and
\* more lookups made than neighbourhoods answered.
C13_Witness ==
    /\ r_done
    /\ r_failures = 0
    /\ r_state.queries > Cardinality(DOMAIN r_state.local_city_cache)
    /\ Len(r_top) >= 2

\* C14: no lookup is issued to the store once the number of identified
\* regions has reached the cap.
C14_NoLookupAfterCap == r_state.late_queries = 0

\* The cache key of a request, and the number of times x occurs in a list.
KeyOf(req) ==
    <<IF req.endpoint = "stats" THEN "stats" ELSE "act",
      req.grid_meters, req.year, req.sport>>
Times(x, list) == Cardinality({ i \in 1..Len(list) : list[i] = x })
SameTracks(a, b) ==
    /\ Len(a) = Len(b)
    /\ \A i \in 1..Len(a) : Times(a[i], a) = Times(a[i], b)

\* C17: between two logouts of a token at most one call goes to the track
\* source.  A data request that computes for a token without a cached list
\* stores what it fetched, an empty or partial list included; one for a
\* token with a cached list contacts nobody and works on the stored tracks;
\* and a request whose key is cached for its token is answered with the
\* cached payload, the caches left as they are.
C17_FetchedOnce ==
    [][/\ \A t \in DOMAIN contacts' : contacts'[t] <= 1
       /\ (served' = served + 1 /\ request'.token # NoToken) =>
            /\ CacheHit(request'.token, KeyOf(request')) =>
                  /\ response'.status = 200
                  /\ response'.body =
                        API_RESULT_CACHE[request'.token][KeyOf(request')]
                  /\ UNCHANGED <<API_RESULT_CACHE, RAW_DATA_CACHE,
                                 contacts, fetched>>
            /\ (/\ ~CacheHit(request'.token, KeyOf(request'))
                /\ request'.token \in DOMAIN RAW_DATA_CACHE) =>
                  /\ UNCHANGED <<contacts, fetched>>
                  /\ SameTracks(RAW_DATA_CACHE'[request'.token],
                                RAW_DATA_CACHE[request'.token])
            /\ (/\ ~CacheHit(request'.token, KeyOf(request'))
                /\ request'.token \notin DOMAIN RAW_DATA_CACHE) =>
                  /\ request'.token \in DOMAIN RAW_DATA_CACHE'
                  /\ contacts'[request'.token] = 1
                  /\ SameTracks(RAW_DATA_CACHE'[request'.token],
                                fetched'[request'.token])
            /\ \A k \in DOMAIN API_RESULT_CACHE'[request'.token] :
                  (/\ request'.token \in DOMAIN API_RESULT_CACHE
                   /\ k \in DOMAIN API_RESULT_CACHE[request'.token]) =>
                     API_RESULT_CACHE'[request'.token][k]
                        = API_RESULT_CACHE[request'.token][k]]_vars

\* A second payload computed for a token from its stored list, after a
\* first call that stored a list, and a request answered from the cache.
C17_Witness ==
    /\ served >= 2
    /\ request.token # NoToken
    /\ response.status = 200
    /\ request.token \in DOMAIN API_RESULT_CACHE
    /\ Cardinality(DOMAIN API_RESULT_CACHE[request.token]) >= 2
    /\ contacts[request.token] = 1

\* C18: a logout of a session that holds token T leaves no entry for T in
\* RAW_DATA_CACHE and in API_RESULT_CACHE and leaves the entries of the
\* other tokens as they are; and a data request for a token that has no
\* entry goes to the track source and computes its payload.
C18_LogoutClears ==
    [][/\ \A c \in Clients :
            (session[c] # NoToken /\ session'[c] = NoToken) =>
               /\ session[c] \notin DOMAIN RAW_DATA_CACHE'
               /\ session[c] \notin DOMAIN API_RESULT_CACHE'
               /\ \A t \in Tokens \ {session[c]} :
                     /\ t \in DOMAIN RAW_DATA_CACHE'
                           <=> t \in DOMAIN RAW_DATA_CACHE
                     /\ t \in DOMAIN RAW_DATA_CACHE =>
                           RAW_DATA_CACHE'[t] = RAW_DATA_CACHE[t]
                     /\ t \in DOMAIN API_RESULT_CACHE'
                           <=> t \in DOMAIN API_RESULT_CACHE
                     /\ t \in DOMAIN API_RESULT_CACHE =>
                           API_RESULT_CACHE'[t] = API_RESULT_CACHE[t]
       /\ (/\ served' = served + 1
           /\ request'.token # NoToken
           /\ request'.token \in DOMAIN fetched
           /\ request'.token \notin DOMAIN RAW_DATA_CACHE) =>
             /\ request'.token \notin DOMAIN API_RESULT_CACHE
             /\ ~response'.cached
             /\ contacts'[request'.token] = 1
             /\ request'.token \in DOMAIN RAW_DATA_CACHE'
             /\ SameTracks(RAW_DATA_CACHE'[request'.token],
                           fetched'[request'.token])]_vars

\* After a logout: the token that was logged out had a list fetched and has
\* no entry left, while another token keeps its list and a payload.
C18_Witness ==
    /\ \A c \in Clients : session[c] = NoToken
    /\ \E T \in DOMAIN fetched :
          /\ T \notin DOMAIN RAW_DATA_CACHE
          /\ T \notin DOMAIN API_RESULT_CACHE
    /\ \E t \in DOMAIN RAW_DATA_CACHE :
          /\ t \in DOMAIN API_RESULT_CACHE
          /\ DOMAIN API_RESULT_CACHE[t] # {}

\* C6: a data request leaves the cached track list of every token as it
\* was: the same tracks in the same order.
C6_TracksUntouched ==
    [][served' = served + 1 =>
          \A t \in DOMAIN RAW_DATA_CACHE :
              /\ t \in DOMAIN RAW_DATA_CACHE'
              /\ RAW_DATA_CACHE'[t] = RAW_DATA_CACHE[t]]_vars

----------------------------------------------------------------------------
(* Claims about get_cells_from_polyline                                    *)

\* C9: the result holds the key of the first point and of every later
\* point, interpolation or not; the empty list gives the empty set.
C9_EndpointsKept ==
    q_done =>
        /\ q_pts = <<>> => q_cells = {}
        /\ \A i \in 1..Len(q_pts) :
              to_key(q_pts[i][1], q_pts[i][2], 1, q_grid) \in q_cells

\* A segment on which points were interpolated.
C9_Witness ==
    /\ q_done
    /\ Len(q_pts) >= 2
    /\ Inserted(q_pts[1], q_pts[2], q_grid) >= 2
    /\ Cardinality(q_cells) >= 3

\* The scenario: (48.8566, 2.3522), (48.8576, 2.3522), spacing 100/111320.
ScenarioTrack == << <<488566, 23522>>, <<488576, 23522>> >>
ScenarioDone == q_done /\ q_pts = ScenarioTrack /\ q_grid = 100

\* C10 as stated: one intermediate point, three distinct cells.
C10_OnePointThreeCells ==
    ScenarioDone =>
        /\ Inserted(q_pts[1], q_pts[2], q_grid) = 1
        /\ Cardinality(q_cells) = 3

\* C10 as amended: the distance, 0.0010, is 2.2 half-spacings, so two
\* intermediate points are inserted; the four keys fall in two cells.
C10_TwoPointsTwoCells ==
    ScenarioDone =>
        /\ Inserted(q_pts[1], q_pts[2], q_grid) = 2
        /\ q_cells = { <<48856450, 2351779>>, <<48857348, 2351779>> }
        /\ Cardinality(q_cells) = 2

C10_Witness == ScenarioDone /\ q_cells # {}

====
